---- MODULE Spec2Model ----
(***************************************************************************)
(* Witness execution driver of nargo (crates/nargo/src/ops/execute.rs):    *)
(* the solve / dispatch / resolve loop of execute_circuit around the ACVM  *)
(* solver and the foreign-call dispatcher.                                 *)
(***************************************************************************)
EXTENDS Integers, Sequences, FiniteSets, TLC

\* ------------------------------------------------------------------ bounds
MaxOps == 2        \* longest circuit, in opcodes
NumWitness == 2    \* witness indices are 1..NumWitness
MaxValue == 1      \* field elements are 0..MaxValue

Witnesses == 1..NumWitness
Values == 0..MaxValue
FieldSize == MaxValue + 1

\* --------------------------------------------------------------- data model
\* WitnessMap: a partial map, DOMAIN w is the set of assigned indices.
EmptyWitness == [i \in {} |-> 0]

Assigned(w) == DOMAIN w

Insert(w, i, v) == [j \in (DOMAIN w) \cup {i} |-> IF j = i THEN v ELSE w[j]]

\* Indices the caller may supply in the initial witness (the program inputs).
InputWitnesses == {1}

InitialWitnesses ==
    UNION {[S -> Values] : S \in SUBSET (InputWitnesses \cap Witnesses)}

\* Foreign call identifiers the dispatcher recognizes, with the result arity
\* each one implies.
Vocabulary == {"print", "assert_message", "oracle"}

Arity(id) == IF id = "oracle" THEN 1 ELSE 0

\* Identifiers the circuits explored carry: a call without a result, one with
\* a result, and one the dispatcher does not know (the front-end's vocabulary
\* may be ahead of the dispatcher's).
CallIds == {"print", "oracle", "mystery"}

\* Opcodes.  Arith: the gate  w[out] = w[in] + k  (with out = in, the
\* constraint 0 = 1 that no assignment satisfies).  ForeignCall: identifier,
\* one witness-backed input, and the output witness (0: no output).
ArithOpcodes ==
    {[kind |-> "Arith", id |-> "", in |-> i, out |-> o, k |-> c] :
        i \in Witnesses, o \in Witnesses, c \in {0, 1}}

ForeignCallOpcodes ==
    {[kind |-> "ForeignCall", id |-> d, in |-> i, out |-> o, k |-> 0] :
        d \in CallIds, i \in Witnesses, o \in Witnesses \cup {0}}

\* The front-end emits an output witness exactly for the identifiers that
\* return a value.
WellFormed(op) ==
    /\ op.kind = "Arith" => (op.in = op.out => op.k = 1)
    /\ op.kind = "ForeignCall" =>
          /\ (op.out # 0) <=> (op.id = "oracle")
          /\ op.out # op.in

Opcodes == {op \in ArithOpcodes \cup ForeignCallOpcodes : WellFormed(op)}

Circuits == UNION {[1..n -> Opcodes] : n \in 0..MaxOps}

NoDetail == [kind |-> "none", at |-> 0]
NoRequest == [id |-> "none", inputs |-> <<>>]
NoDispatchError == [kind |-> "none", id |-> "none"]

\* ACVMStatus
StatusInProgress == [tag |-> "InProgress", detail |-> NoDetail, request |-> NoRequest]
StatusSolved == [tag |-> "Solved", detail |-> NoDetail, request |-> NoRequest]
StatusFailure(kind, at) ==
    [tag |-> "Failure", detail |-> [kind |-> kind, at |-> at], request |-> NoRequest]
StatusRequiresForeignCall(req) ==
    [tag |-> "RequiresForeignCall", detail |-> NoDetail, request |-> req]

\* Result<WitnessMap, NargoError>, or a panic unwinding out of the function.
NoError == [class |-> "none", detail |-> NoDetail, dispatch |-> NoDispatchError]
NotReturned == [tag |-> "none", witness |-> EmptyWitness, err |-> NoError]
Ok(w) == [tag |-> "Ok", witness |-> w, err |-> NoError]
Err(e) == [tag |-> "Err", witness |-> EmptyWitness, err |-> e]
Panicked == [tag |-> "panic", witness |-> EmptyWitness, err |-> NoError]

\* AST nodes of the front-end (ast/traits.rs) and their Display texts.
MaxGenerics == 2   \* longest generics list
MaxItems == 2      \* most items or methods in a body

Idents == {"T", "U"}
TypeNames == {"Foo", "Field"}

SeqsUpTo(S, n) == UNION {[1..m -> S] : m \in 0..n}

\* TraitItem::Type { name } and TraitItem::Constant { name, typ, None }
TraitItems ==
    {[item |-> "Type", name |-> n, typ |-> ""] : n \in Idents}
      \cup {[item |-> "Constant", name |-> n, typ |-> "Field"] : n \in Idents}

\* A method, by the lines of its own Display text.
MethodTexts == {<<"fn f() {", "}">>, <<"fn g() {", "    1", "}">>}

NoNode == [node |-> "none", name |-> "", generics |-> <<>>, items |-> <<>>, methods |-> <<>>]

NoirTraits ==
    {[node |-> "NoirTrait", name |-> n, generics |-> g, items |-> its, methods |-> <<>>] :
        n \in Idents, g \in SeqsUpTo(Idents, MaxGenerics),
        its \in SeqsUpTo(TraitItems, MaxItems)}

\* name holds the object type's text.
TypeImpls ==
    {[node |-> "TypeImpl", name |-> n, generics |-> g, items |-> <<>>, methods |-> ms] :
        n \in TypeNames, g \in SeqsUpTo(Idents, MaxGenerics),
        ms \in SeqsUpTo(MethodTexts, MaxItems)}

\* Trace events: every call the driver makes on the solver or the dispatcher.
NoOutcome == [ok |-> TRUE, values |-> <<>>, error |-> NoDispatchError, rendered |-> <<>>]

\* Each event also keeps the solver's witness map as it is after the call.
SolveEvent(status, w) ==
    [call |-> "solve", status |-> status, request |-> NoRequest, outcome |-> NoOutcome,
     witness |-> w]
DispatchEvent(req, outcome, w) ==
    [call |-> "dispatch", status |-> StatusInProgress, request |-> req,
     outcome |-> outcome, witness |-> w]
ResolveEvent(values, w) ==
    [call |-> "resolve", status |-> StatusInProgress, request |-> NoRequest,
     outcome |-> [NoOutcome EXCEPT !.values = values], witness |-> w]
FinalizeEvent(w) ==
    [call |-> "finalize", status |-> StatusInProgress, request |-> NoRequest,
     outcome |-> NoOutcome, witness |-> w]

VARIABLES
    circuit,              \* circuit.opcodes, immutable
    initial_witness,      \* caller-supplied witness
    show_output,          \* output mode flag
    acvm_witness,         \* solver: witness map
    acvm_ip,              \* solver: number of opcodes already solved
    acvm_status,          \* solver: ACVMStatus
    pc,                   \* driver position: solve, dispatch, resolve, finalize, done
    foreign_call,         \* driver local: the request being handled
    foreign_call_result,  \* driver local: the dispatcher's result values
    ret,                  \* what execute_circuit returned
    output,               \* the caller's output sink
    trace,                \* calls made so far, in order
    node,                 \* front-end: the AST node handed to Display::fmt
    fmt_out               \* front-end: the text the formatter has received

vars == <<circuit, initial_witness, show_output, acvm_witness, acvm_ip, acvm_status,
          pc, foreign_call, foreign_call_result, ret, output, trace, node, fmt_out>>

display == <<node, fmt_out>>

inputs == <<circuit, initial_witness, show_output>>

\* ------------------------------------------------------------------ solver
\* ACVM::new
ACVMNew(w) == [witness |-> w, ip |-> 0, status |-> StatusInProgress]

\* One run of the solving loop from opcode ip+1 on: stops at the end of the
\* circuit, at the first opcode that fails, or at a foreign call.
RECURSIVE RunOpcodes(_, _, _)
RunOpcodes(ops, w, ip) ==
    IF ip >= Len(ops) THEN [witness |-> w, ip |-> ip, status |-> StatusSolved]
    ELSE LET op == ops[ip + 1] IN
      IF op.in \notin DOMAIN w
      THEN [witness |-> w, ip |-> ip, status |-> StatusFailure("OpcodeNotSolvable", ip + 1)]
      ELSE IF op.kind = "ForeignCall"
      THEN [witness |-> w, ip |-> ip,
            status |-> StatusRequiresForeignCall([id |-> op.id, inputs |-> <<w[op.in]>>])]
      ELSE LET v == (w[op.in] + op.k) % FieldSize IN
        IF op.out \in DOMAIN w /\ w[op.out] # v
        THEN [witness |-> w, ip |-> ip,
              status |-> StatusFailure("UnsatisfiedConstraint", ip + 1)]
        ELSE RunOpcodes(ops, Insert(w, op.out, v), ip + 1)

\* ACVM::solve as contracted: runs while the status is InProgress.
ACVMSolve(ops, acvm) ==
    IF acvm.status.tag # "InProgress" THEN acvm
    ELSE RunOpcodes(ops, acvm.witness, acvm.ip)

\* What a solve() call can hand back: the contracted result, or (a defective
\* solver) a return while still InProgress, nothing solved.
ACVMSolveOutcomes(ops, acvm) == {ACVMSolve(ops, acvm), acvm}

\* ACVM::resolve_pending_foreign_call: writes the result into the output
\* witness of the pending opcode (single assignment enforced at the write)
\* and makes the solver runnable again.
ACVMResolve(ops, acvm, values) ==
    IF acvm.status.tag # "RequiresForeignCall" THEN acvm
    ELSE LET op == ops[acvm.ip + 1] IN
      IF op.out = 0
      THEN [acvm EXCEPT !.ip = acvm.ip + 1, !.status = StatusInProgress]
      ELSE IF Len(values) # 1
      THEN [acvm EXCEPT !.status = StatusFailure("OpcodeNotSolvable", acvm.ip + 1)]
      ELSE IF op.out \in DOMAIN acvm.witness /\ acvm.witness[op.out] # values[1]
      THEN [acvm EXCEPT !.status = StatusFailure("UnsatisfiedConstraint", acvm.ip + 1)]
      ELSE [witness |-> Insert(acvm.witness, op.out, values[1]),
            ip |-> acvm.ip + 1, status |-> StatusInProgress]

\* ACVM::finalize
ACVMFinalize(acvm) == acvm.witness

\* -------------------------------------------------------------- dispatcher
\* What the host behind an oracle call may answer.
RawResults == {<<>>} \cup {<<v>> : v \in Values}

DispatchOk(values, rendered) ==
    [ok |-> TRUE, values |-> values, error |-> NoDispatchError, rendered |-> rendered]
DispatchErr(kind, id) ==
    [ok |-> FALSE, values |-> <<>>, error |-> [kind |-> kind, id |-> id], rendered |-> <<>>]

\* ForeignCall::execute(&foreign_call, show_output)
ForeignCallExecute(req, show, raw) ==
    IF req.id \notin Vocabulary THEN DispatchErr("UnknownForeignCall", req.id)
    ELSE IF req.id = "print"
    THEN DispatchOk(<<>>, IF show THEN <<req.inputs>> ELSE <<>>)
    ELSE IF req.id = "assert_message" THEN DispatchOk(<<>>, <<>>)
    ELSE IF Len(raw) # Arity(req.id) THEN DispatchErr("ResultShapeMismatch", req.id)
    ELSE DispatchOk(raw, <<>>)

\* ------------------------------------------------------ error translation
\* error.into(): OpcodeResolutionError -> NargoError
NargoErrorFromSolver(detail) ==
    [class |-> "SolvingError", detail |-> detail, dispatch |-> NoDispatchError]

\* the ? operator: ForeignCallError -> NargoError
NargoErrorFromForeignCall(e) ==
    [class |-> "ForeignCallError", detail |-> NoDetail, dispatch |-> e]

ErrorClasses == {"SolvingError", "ForeignCallError"}

\* ------------------------------------------------------------------ driver
acvm == [witness |-> acvm_witness, ip |-> acvm_ip, status |-> acvm_status]

SetACVM(a) ==
    /\ acvm_witness' = a.witness
    /\ acvm_ip' = a.ip
    /\ acvm_status' = a.status

Init ==
    /\ circuit \in Circuits
    /\ initial_witness \in InitialWitnesses
    /\ show_output \in BOOLEAN
    /\ acvm_witness = ACVMNew(initial_witness).witness
    /\ acvm_ip = ACVMNew(initial_witness).ip
    /\ acvm_status = ACVMNew(initial_witness).status
    /\ pc = "solve"
    /\ foreign_call = NoRequest
    /\ foreign_call_result = <<>>
    /\ ret = NotReturned
    /\ output = <<>>
    /\ trace = <<>>
    /\ node = NoNode
    /\ fmt_out = ""

\* Variant: a request is not dispatched, the loop just calls solve() again.
MatchStatus_SolveAgainOnRequest(status) ==
    CASE status.tag = "Solved" ->
           [pc |-> "finalize", ret |-> NotReturned, foreign_call |-> NoRequest]
      [] status.tag = "InProgress" ->
           [pc |-> "done", ret |-> Panicked, foreign_call |-> NoRequest]
      [] status.tag = "Failure" ->
           [pc |-> "done", ret |-> Err(NargoErrorFromSolver(status.detail)),
            foreign_call |-> NoRequest]
      [] status.tag = "RequiresForeignCall" ->
           [pc |-> "solve", ret |-> NotReturned, foreign_call |-> NoRequest]

\* Variant: a failure is retried instead of returned.
MatchStatus_RetryOnFailure(status) ==
    CASE status.tag = "Solved" ->
           [pc |-> "finalize", ret |-> NotReturned, foreign_call |-> NoRequest]
      [] status.tag = "InProgress" ->
           [pc |-> "done", ret |-> Panicked, foreign_call |-> NoRequest]
      [] status.tag = "Failure" ->
           [pc |-> "solve", ret |-> NotReturned, foreign_call |-> NoRequest]
      [] status.tag = "RequiresForeignCall" ->
           [pc |-> "dispatch", ret |-> NotReturned, foreign_call |-> status.request]

\* Variant: a failure leaves the loop like Solved does.
MatchStatus_BreakOnFailure(status) ==
    CASE status.tag \in {"Solved", "Failure"} ->
           [pc |-> "finalize", ret |-> NotReturned, foreign_call |-> NoRequest]
      [] status.tag = "InProgress" ->
           [pc |-> "done", ret |-> Panicked, foreign_call |-> NoRequest]
      [] status.tag = "RequiresForeignCall" ->
           [pc |-> "dispatch", ret |-> NotReturned, foreign_call |-> status.request]

\* match solver_status { ... }: where the driver goes on each status.
MatchStatus(status) ==
    CASE status.tag = "Solved" ->
           [pc |-> "finalize", ret |-> NotReturned, foreign_call |-> NoRequest]
      [] status.tag = "InProgress" ->
           [pc |-> "done", ret |-> Panicked, foreign_call |-> NoRequest]
      [] status.tag = "Failure" ->
           [pc |-> "done", ret |-> Err(NargoErrorFromSolver(status.detail)),
            foreign_call |-> NoRequest]
      [] status.tag = "RequiresForeignCall" ->
           [pc |-> "dispatch", ret |-> NotReturned, foreign_call |-> status.request]

\* let solver_status = acvm.solve(); match solver_status
Solve ==
    /\ pc = "solve"
    /\ \E a \in ACVMSolveOutcomes(circuit, acvm) :
         /\ SetACVM(a)
         /\ trace' = Append(trace, SolveEvent(a.status, a.witness))
         /\ pc' = MatchStatus(a.status).pc
         /\ ret' = MatchStatus(a.status).ret
         /\ foreign_call' = MatchStatus(a.status).foreign_call
    /\ UNCHANGED <<display, inputs, foreign_call_result, output>>

\* Variant: a dispatcher error is swallowed and an empty result resolved.
TryDispatch_IgnoresError(outcome) ==
    [pc |-> "resolve", ret |-> NotReturned, result |-> outcome.values]

\* Variant: a dispatcher error is returned as if the solver had failed.
TryDispatch_AsSolverError(outcome) ==
    IF outcome.ok
    THEN [pc |-> "resolve", ret |-> NotReturned, result |-> outcome.values]
    ELSE [pc |-> "done", ret |-> Err(NargoErrorFromSolver(NoDetail)), result |-> <<>>]

\* What happens to the dispatcher's Result: `?` returns the error, otherwise
\* the value goes on to the resolve step.
TryDispatch(outcome) ==
    IF outcome.ok
    THEN [pc |-> "resolve", ret |-> NotReturned, result |-> outcome.values]
    ELSE [pc |-> "done", ret |-> Err(NargoErrorFromForeignCall(outcome.error)),
          result |-> <<>>]

\* Variant: the driver itself marks the solver runnable once the dispatcher
\* has answered.
Dispatch_MarksResolved ==
    /\ pc = "dispatch"
    /\ \E raw \in RawResults :
         LET outcome == ForeignCallExecute(foreign_call, show_output, raw) IN
         /\ output' = output \o outcome.rendered
         /\ trace' = Append(trace, DispatchEvent(foreign_call, outcome, acvm_witness))
         /\ pc' = TryDispatch(outcome).pc
         /\ ret' = TryDispatch(outcome).ret
         /\ foreign_call_result' = TryDispatch(outcome).result
         /\ foreign_call' = IF TryDispatch(outcome).pc = "done" THEN NoRequest
                            ELSE foreign_call
         /\ acvm_status' = IF outcome.ok THEN StatusInProgress ELSE acvm_status
    /\ UNCHANGED <<display, inputs, acvm_witness, acvm_ip>>

\* Variant: the dispatcher is always asked for visible output.
Dispatch_AlwaysShows ==
    /\ pc = "dispatch"
    /\ \E raw \in RawResults :
         LET outcome == ForeignCallExecute(foreign_call, TRUE, raw) IN
         /\ output' = output \o outcome.rendered
         /\ trace' = Append(trace, DispatchEvent(foreign_call, outcome, acvm_witness))
         /\ pc' = TryDispatch(outcome).pc
         /\ ret' = TryDispatch(outcome).ret
         /\ foreign_call_result' = TryDispatch(outcome).result
         /\ foreign_call' = IF TryDispatch(outcome).pc = "done" THEN NoRequest
                            ELSE foreign_call
    /\ UNCHANGED <<display, inputs, acvm_witness, acvm_ip, acvm_status>>

\* let foreign_call_result = ForeignCall::execute(&foreign_call, show_output)?;
Dispatch ==
    /\ pc = "dispatch"
    /\ \E raw \in RawResults :
         LET outcome == ForeignCallExecute(foreign_call, show_output, raw) IN
         /\ output' = output \o outcome.rendered
         /\ trace' = Append(trace, DispatchEvent(foreign_call, outcome, acvm_witness))
         /\ pc' = TryDispatch(outcome).pc
         /\ ret' = TryDispatch(outcome).ret
         /\ foreign_call_result' = TryDispatch(outcome).result
         \* an early return drops the locals
         /\ foreign_call' = IF TryDispatch(outcome).pc = "done" THEN NoRequest
                            ELSE foreign_call
    /\ UNCHANGED <<display, inputs, acvm_witness, acvm_ip, acvm_status>>

\* Variant: the result is rebuilt empty before it is handed over.
ResolveArgument_Dropped(result) == <<>>

\* Variant: the values are re-encoded wrongly on the way to the solver.
ResolveArgument_Altered(result) ==
    [i \in DOMAIN result |-> (result[i] + 1) % FieldSize]

\* The value the driver hands to resolve_pending_foreign_call.
ResolveArgument(result) == result

\* Variant: the solver is built anew around the current witness on every
\* resumption, so it starts over at the first opcode.
Resolve_Rebuilds ==
    /\ pc = "resolve"
    /\ SetACVM([ACVMResolve(circuit, acvm, ResolveArgument(foreign_call_result))
                  EXCEPT !.ip = 0])
    /\ trace' = Append(trace, ResolveEvent(ResolveArgument(foreign_call_result),
                                          acvm_witness'))
    /\ pc' = "solve"
    /\ foreign_call' = NoRequest
    /\ foreign_call_result' = <<>>
    /\ UNCHANGED <<display, inputs, ret, output>>

\* Variant: the solver's witness is re-seeded from the initial witness on
\* every resumption.
Resolve_Reseeds ==
    /\ pc = "resolve"
    /\ SetACVM(ACVMResolve(circuit, [acvm EXCEPT !.witness = initial_witness],
                           ResolveArgument(foreign_call_result)))
    /\ trace' = Append(trace, ResolveEvent(ResolveArgument(foreign_call_result),
                                          acvm_witness'))
    /\ pc' = "solve"
    /\ foreign_call' = NoRequest
    /\ foreign_call_result' = <<>>
    /\ UNCHANGED <<display, inputs, ret, output>>

\* acvm.resolve_pending_foreign_call(foreign_call_result); then loop
Resolve ==
    /\ pc = "resolve"
    /\ SetACVM(ACVMResolve(circuit, acvm, ResolveArgument(foreign_call_result)))
    /\ trace' = Append(trace, ResolveEvent(ResolveArgument(foreign_call_result),
                                          acvm_witness'))
    /\ pc' = "solve"
    /\ foreign_call' = NoRequest
    /\ foreign_call_result' = <<>>
    /\ UNCHANGED <<display, inputs, ret, output>>

\* Variant: the caller's witness is handed back instead of the solved one.
Finalize_ReturnsInitial ==
    /\ pc = "finalize"
    /\ ret' = Ok(initial_witness)
    /\ trace' = Append(trace, FinalizeEvent(acvm_witness))
    /\ pc' = "done"
    /\ UNCHANGED <<display, inputs, acvm_witness, acvm_ip, acvm_status, foreign_call,
                   foreign_call_result, output>>

\* let solved_witness = acvm.finalize(); Ok(solved_witness)
Finalize ==
    /\ pc = "finalize"
    /\ ret' = Ok(ACVMFinalize(acvm))
    /\ trace' = Append(trace, FinalizeEvent(acvm_witness))
    /\ pc' = "done"
    /\ UNCHANGED <<display, inputs, acvm_witness, acvm_ip, acvm_status, foreign_call,
                   foreign_call_result, output>>

Next == Solve \/ Dispatch \/ Resolve \/ Finalize

Spec == Init /\ [][Next]_vars

\* ------------------------------------------------------- reading the trace
Last == Len(trace)

IsSolve(e) == e.call = "solve"
IsDispatch(e) == e.call = "dispatch"
IsResolve(e) == e.call = "resolve"
IsFinalize(e) == e.call = "finalize"
ReturnsTag(e, tag) == IsSolve(e) /\ e.status.tag = tag
IsRequest(e) == ReturnsTag(e, "RequiresForeignCall")
DispatchFailed(e) == IsDispatch(e) /\ ~e.outcome.ok
DispatchSucceeded(e) == IsDispatch(e) /\ e.outcome.ok

\* Number of events among the first n of the trace that satisfy P.
CountUpTo(P(_), n) == Cardinality({i \in 1..n : P(trace[i])})
Count(P(_)) == CountUpTo(P, Last)

\* Requests emitted by the solver and not yet resolved, after n events.
OutstandingAfter(n) == CountUpTo(IsRequest, n) - CountUpTo(IsResolve, n)

\* The solver kept its contract so far: no solve() came back InProgress.
SolverConformed == \A i \in 1..Last : ~ReturnsTag(trace[i], "InProgress")

\* ------------------------------------------------------------------ claims
\* C1: every request the solver emits is dispatched exactly once, as emitted,
\* right after the solve() that returned it; a successful dispatch is followed
\* by exactly one resolve carrying the dispatcher's values unmodified, and
\* only then by the next solve(); nothing is dispatched or resolved otherwise.
C1_DispatchResolveInOrder ==
    \A i \in 1..Last :
      LET e == trace[i] IN
      /\ IsRequest(e) =>
            IF i = Last THEN pc = "dispatch" /\ foreign_call = e.status.request
            ELSE IsDispatch(trace[i + 1]) /\ trace[i + 1].request = e.status.request
      /\ IsDispatch(e) =>
            /\ i > 1 /\ IsRequest(trace[i - 1])
            /\ e.outcome.ok =>
                 IF i = Last
                 THEN pc = "resolve" /\ foreign_call_result = e.outcome.values
                 ELSE /\ IsResolve(trace[i + 1])
                      /\ trace[i + 1].outcome.values = e.outcome.values
      /\ IsResolve(e) =>
            /\ i > 1 /\ DispatchSucceeded(trace[i - 1])
            /\ IF i = Last THEN pc = "solve" ELSE IsSolve(trace[i + 1])

\* Two requests dispatched and resolved, one of them with a value.
C1_Witness ==
    /\ Count(IsResolve) = 2
    /\ \E i \in 1..Last : IsResolve(trace[i]) /\ trace[i].outcome.values # <<>>

\* C2: at most one request is unresolved at any time, the driver holds a
\* request exactly while one is unresolved and the execution runs, and every
\* solve() is called with no request unresolved.
C2_OneOutstandingRequest ==
    /\ OutstandingAfter(Last) \in {0, 1}
    /\ \A i \in 1..Last : IsSolve(trace[i]) => OutstandingAfter(i - 1) = 0
    /\ pc = "solve" => OutstandingAfter(Last) = 0
    /\ (foreign_call # NoRequest) <=> (pc \in {"dispatch", "resolve"})
    /\ pc \in {"dispatch", "resolve"} => OutstandingAfter(Last) = 1
    /\ OutstandingAfter(Last) = 1 /\ pc \notin {"dispatch", "resolve"} =>
          pc = "done" /\ DispatchFailed(trace[Last])

\* A second request is outstanding after the first was resolved.
C2_Witness ==
    /\ pc = "dispatch"
    /\ Count(IsResolve) = 1
    /\ OutstandingAfter(Last) = 1

\* C3: a Failure status ends the execution at once: it is the last call made,
\* and the function returned an error carrying the solver's detail.
C3_FailureTerminates ==
    \A i \in 1..Last :
      ReturnsTag(trace[i], "Failure") =>
        /\ i = Last
        /\ pc = "done"
        /\ ret.tag = "Err"
        /\ ret.err.class = "SolvingError"
        /\ ret.err.detail = trace[i].status.detail

\* A failure on the solve() that follows a resolved foreign call.
C3_Witness ==
    /\ pc = "done"
    /\ ReturnsTag(trace[Last], "Failure")
    /\ Count(IsResolve) = 1
    /\ trace[Last].status.detail.kind = "UnsatisfiedConstraint"

\* The four error conditions of the driver loop.
IsErrorCondition(e) ==
    \/ ReturnsTag(e, "Failure")
    \/ ReturnsTag(e, "InProgress")
    \/ DispatchFailed(e)

\* C4 as claimed: each error condition is the last call of the execution and
\* the function returned a typed error.
C4_AllFourReturnTypedError ==
    \A i \in 1..Last :
      IsErrorCondition(trace[i]) => i = Last /\ pc = "done" /\ ret.tag = "Err"

\* C4, amended: each error condition is the last call of the execution (no
\* retry); a solver failure and a dispatcher error return a typed error, an
\* InProgress status returns nothing: the function panics.
C4_ErrorsStopTheLoop ==
    \A i \in 1..Last :
      LET e == trace[i] IN
      IsErrorCondition(e) =>
        /\ i = Last
        /\ pc = "done"
        /\ ReturnsTag(e, "InProgress") => ret = Panicked
        /\ ~ReturnsTag(e, "InProgress") => ret.tag = "Err" /\ ret.err.class \in ErrorClasses

\* The solver came back InProgress after a foreign call had been resolved.
C4_Witness ==
    /\ pc = "done"
    /\ ReturnsTag(trace[Last], "InProgress")
    /\ Count(IsResolve) = 1

\* C5: a dispatcher error is the last call of the execution (no resolve, no
\* solve, no finalize after it) and is returned as a foreign-call error with
\* the dispatcher's error inside; the class of a returned error tells a
\* dispatcher error from a solver failure.
C5_DispatchErrorTerminates ==
    /\ \A i \in 1..Last :
         DispatchFailed(trace[i]) =>
           /\ i = Last
           /\ pc = "done"
           /\ ret = Err(NargoErrorFromForeignCall(trace[i].outcome.error))
    /\ ret.tag = "Err" =>
         /\ ret.err.class = "ForeignCallError" <=> DispatchFailed(trace[Last])
         /\ ret.err.class = "SolvingError" <=> ReturnsTag(trace[Last], "Failure")

\* A shape mismatch on the second foreign call.
C5_Witness ==
    /\ pc = "done"
    /\ DispatchFailed(trace[Last])
    /\ trace[Last].outcome.error.kind = "ResultShapeMismatch"
    /\ Count(IsResolve) = 1

\* ------------------------------------------- circuits, as the claims see them
\* Witness indices the circuit refers to.
RequiredWitnesses(ops) ==
    UNION {{ops[i].in} \cup ({ops[i].out} \ {0}) : i \in 1..Len(ops)}

IsForeignCallOpcode(op) == op.kind = "ForeignCall"

NoForeignCalls(ops) == \A i \in 1..Len(ops) : ~IsForeignCallOpcode(ops[i])

\* A total assignment a satisfies a gate; foreign calls constrain nothing.
SatisfiesOpcode(a, op) ==
    op.kind = "Arith" => a[op.out] = (a[op.in] + op.k) % FieldSize

\* Some total assignment extends w and satisfies the first n opcodes.
SatisfiablePrefix(ops, w, n) ==
    \E a \in [Witnesses -> Values] :
      /\ \A i \in DOMAIN w : a[i] = w[i]
      /\ \A i \in 1..n : SatisfiesOpcode(a, ops[i])

Unsatisfiable(ops, w) == ~SatisfiablePrefix(ops, w, Len(ops))

\* The shortest prefix of the circuit that no assignment satisfies.
FirstUnsatisfiable(ops, w) ==
    CHOOSE n \in 1..Len(ops) :
      /\ ~SatisfiablePrefix(ops, w, n)
      /\ \A m \in 0..(n - 1) : SatisfiablePrefix(ops, w, m)

\* Every opcode's input is an initial entry or the output of an earlier opcode.
Determined(ops, w) ==
    \A i \in 1..Len(ops) :
      ops[i].in \in (DOMAIN w) \cup {ops[j].out : j \in 1..(i - 1)}

\* The n-th foreign-call opcode of the circuit, the n-th request the solver
\* emitted, in order.
ForeignCallOpcodeIndex(ops, n) ==
    CHOOSE i \in 1..Len(ops) :
      /\ IsForeignCallOpcode(ops[i])
      /\ Cardinality({j \in 1..i : IsForeignCallOpcode(ops[j])}) = n

RequestIndex(n) ==
    CHOOSE i \in 1..Last : IsRequest(trace[i]) /\ CountUpTo(IsRequest, i) = n

\* C6: a success is returned only right after solve() returned Solved and
\* finalize() was called; the store returned is the solver's, and it has a
\* value for every witness the circuit refers to.
C6_SuccessOnlyAfterSolved ==
    ret.tag = "Ok" =>
      /\ pc = "done"
      /\ Last >= 2
      /\ IsFinalize(trace[Last])
      /\ ReturnsTag(trace[Last - 1], "Solved")
      /\ Count(IsFinalize) = 1
      /\ ret.witness = trace[Last - 1].witness
      /\ ret.witness = ACVMFinalize(acvm)
      /\ RequiredWitnesses(circuit) \subseteq Assigned(ret.witness)

\* A success after a foreign call that supplied a witness value.
C6_Witness ==
    /\ ret.tag = "Ok"
    /\ Count(IsResolve) >= 1
    /\ Assigned(ret.witness) # Assigned(initial_witness)
    /\ RequiredWitnesses(circuit) = Witnesses

\* C7: with no foreign-call opcode, constraints that are satisfiable and
\* determined by the initial witness, and a solver that keeps its contract,
\* a finished execution made exactly one solve() call, which returned Solved,
\* made no dispatch, and returned a store with every witness of the circuit.
C7_NoForeignCallsOneSolve ==
    ( /\ pc = "done"
      /\ NoForeignCalls(circuit)
      /\ SatisfiablePrefix(circuit, initial_witness, Len(circuit))
      /\ Determined(circuit, initial_witness)
      /\ SolverConformed )
    => /\ ret.tag = "Ok"
       /\ Count(IsSolve) = 1
       /\ ReturnsTag(trace[1], "Solved")
       /\ Count(IsDispatch) = 0
       /\ Count(IsResolve) = 0
       /\ RequiredWitnesses(circuit) \subseteq Assigned(ret.witness)

\* A two-gate circuit solved from one input.
C7_Witness ==
    /\ pc = "done"
    /\ ret.tag = "Ok"
    /\ NoForeignCalls(circuit)
    /\ Len(circuit) = 2
    /\ Assigned(ret.witness) = Witnesses
    /\ Assigned(initial_witness) # Witnesses

\* C8 as claimed: an unsatisfiable circuit ends in a solver failure and no
\* foreign call was dispatched.
C8_UnsatisfiableZeroDispatches ==
    ( /\ pc = "done"
      /\ Unsatisfiable(circuit, initial_witness)
      /\ SolverConformed )
    => /\ ret.tag = "Err"
       /\ ret.err.class = "SolvingError"
       /\ Count(IsDispatch) = 0

\* C8, amended: when no foreign-call opcode stands before the first
\* constraint that makes the circuit unsatisfiable, the execution ends in a
\* solver failure with no dispatch; in any case an unsatisfiable circuit
\* never returns a success.
C8_UnsatisfiableFailsBeforeAnyCall ==
    ( /\ pc = "done"
      /\ Unsatisfiable(circuit, initial_witness)
      /\ SolverConformed )
    => /\ ret.tag = "Err"
       /\ (\A i \in 1..FirstUnsatisfiable(circuit, initial_witness) :
              ~IsForeignCallOpcode(circuit[i]))
          => /\ ret.err.class = "SolvingError"
             /\ Count(IsDispatch) = 0
             /\ Count(IsSolve) = 1

\* An unsatisfiable gate behind a solvable one, in a circuit without foreign
\* calls.
C8_Witness ==
    /\ pc = "done"
    /\ Len(circuit) = 2
    /\ Unsatisfiable(circuit, initial_witness)
    /\ FirstUnsatisfiable(circuit, initial_witness) = 2
    /\ NoForeignCalls(circuit)
    /\ ret.tag = "Err"
    /\ ret.err.detail.kind = "UnsatisfiedConstraint"

\* C9: when the input of a foreign call is the output witness of the call
\* before it, the first request was dispatched and resolved before the
\* second was emitted, and the second request carries the value the
\* dispatcher returned for the first, which is the value resolved into the
\* witness.
C9_SecondCallSeesFirstResult ==
    \A n \in 1..(Count(IsRequest) - 1) :
      LET i == RequestIndex(n)
          j == RequestIndex(n + 1)
          op1 == circuit[ForeignCallOpcodeIndex(circuit, n)]
          op2 == circuit[ForeignCallOpcodeIndex(circuit, n + 1)]
      IN  (op1.out # 0 /\ op2.in = op1.out) =>
            /\ j = i + 3
            /\ DispatchSucceeded(trace[i + 1])
            /\ IsResolve(trace[i + 2])
            /\ trace[j].status.request.inputs = trace[i + 1].outcome.values
            /\ trace[j].status.request.inputs = trace[i + 2].outcome.values
            /\ trace[i + 2].witness[op1.out] = trace[j].status.request.inputs[1]

\* Two foreign calls, the second reading the witness the first one wrote,
\* which the initial witness did not hold.
C9_Witness ==
    /\ Count(IsRequest) = 2
    /\ circuit[ForeignCallOpcodeIndex(circuit, 2)].in =
         circuit[ForeignCallOpcodeIndex(circuit, 1)].out
    /\ circuit[ForeignCallOpcodeIndex(circuit, 1)].out \notin Assigned(initial_witness)

\* C10: every witness index assigned when the solver suspended on a request
\* is still assigned after each later resolve and each later solve().
C10_MonotonicFill ==
    \A i \in 1..Last : \A j \in (i + 1)..Last :
      (IsRequest(trace[i]) /\ (IsResolve(trace[j]) \/ IsSolve(trace[j]))) =>
        Assigned(trace[i].witness) \subseteq Assigned(trace[j].witness)

\* Second resumption done; at the second suspension the witness held an
\* entry the initial witness did not.
C10_Witness ==
    /\ Count(IsResolve) = 2
    /\ IsSolve(trace[Last])
    /\ Assigned(trace[RequestIndex(2)].witness) # Assigned(initial_witness)

\* w2 holds every entry of w1, with the same value.
Keeps(w1, w2) == \A k \in DOMAIN w1 : k \in DOMAIN w2 /\ w2[k] = w1[k]

\* C11: single assignment: a witness entry, once set, has the same value
\* after every later call; the initial witness is kept from the first call
\* on, and a returned store holds every initial entry unchanged.
C11_SingleAssignment ==
    /\ Keeps(initial_witness, acvm_witness)
    /\ \A i \in 1..Last :
         /\ Keeps(initial_witness, trace[i].witness)
         /\ \A j \in (i + 1)..Last : Keeps(trace[i].witness, trace[j].witness)
    /\ Last > 0 => Keeps(trace[Last].witness, acvm_witness)
    /\ ret.tag = "Ok" => Keeps(initial_witness, ret.witness)

\* A success where a foreign call answered for a witness the caller had
\* already supplied.
C11_Witness ==
    /\ ret.tag = "Ok"
    /\ Assigned(initial_witness) # {}
    /\ \E i \in 1..Len(circuit) :
         IsForeignCallOpcode(circuit[i]) /\ circuit[i].out \in Assigned(initial_witness)

\* Opcodes 1..n are solved in w: every witness they refer to has a value and
\* every gate among them holds.
SolvedUpTo(ops, w, n) ==
    \A i \in 1..n :
      /\ ops[i].in \in DOMAIN w
      /\ ops[i].out # 0 => ops[i].out \in DOMAIN w
      /\ ops[i].kind = "Arith" => w[ops[i].out] = (w[ops[i].in] + ops[i].k) % FieldSize

ForeignCallsUpTo(ops, n) ==
    Cardinality({i \in 1..n : IsForeignCallOpcode(ops[i])})

\* C12: the solver resumes where it was suspended.  Its position never moves
\* back; a resolve moves it past the pending foreign call only; everything
\* before the position is solved, and the opcode at the position is the one
\* it stopped at; every foreign-call opcode passed was requested exactly once
\* (a request more only for the call the solver stands at).
C12_Position ==
    /\ acvm_ip \in 0..Len(circuit)
    /\ SolvedUpTo(circuit, acvm_witness, acvm_ip)
    /\ acvm_status.tag = "Solved" => acvm_ip = Len(circuit)
    /\ acvm_status.tag = "RequiresForeignCall" =>
         acvm_ip < Len(circuit) /\ IsForeignCallOpcode(circuit[acvm_ip + 1])
    /\ Count(IsRequest) >= ForeignCallsUpTo(circuit, acvm_ip)
    /\ Count(IsRequest) <=
         ForeignCallsUpTo(circuit, IF acvm_ip < Len(circuit) THEN acvm_ip + 1 ELSE acvm_ip)
    /\ acvm_status.tag = "RequiresForeignCall" =>
         Count(IsRequest) = ForeignCallsUpTo(circuit, acvm_ip) + 1
    /\ Count(IsResolve) \in
         {ForeignCallsUpTo(circuit, acvm_ip), ForeignCallsUpTo(circuit, acvm_ip) + 1}

C12_Step ==
    /\ acvm_ip' >= acvm_ip
    /\ pc = "resolve" => acvm_ip' \in {acvm_ip, acvm_ip + 1}
    /\ pc = "resolve" /\ acvm_status'.tag = "InProgress" => acvm_ip' = acvm_ip + 1
    /\ pc \in {"dispatch", "finalize"} => acvm_ip' = acvm_ip
    /\ pc = "solve" =>
         \A i \in (acvm_ip + 1)..acvm_ip' : ~IsForeignCallOpcode(circuit[i])

C12_ResumesWhereSuspended == [](C12_Position) /\ [][C12_Step]_vars

\* Two suspend / resume cycles, then solved to the end.
C12_Witness ==
    /\ Count(IsResolve) = 2
    /\ acvm_status.tag = "Solved"
    /\ acvm_ip = Len(circuit)

IsPrintDispatch(e) == IsDispatch(e) /\ e.request.id = "print"

\* The inputs of the print requests dispatched among the first n calls, in
\* order: the text a visible run is expected to show.
RECURSIVE PrintedUpTo(_)
PrintedUpTo(n) ==
    IF n = 0 THEN <<>>
    ELSE IF IsPrintDispatch(trace[n]) THEN Append(PrintedUpTo(n - 1), trace[n].request.inputs)
    ELSE PrintedUpTo(n - 1)

\* C14: what a dispatch gives back to the solver (success, values, error)
\* is the same with output_mode on and off; the sink holds the inputs of each
\* dispatched print call exactly once, in order, when output_mode is on, and
\* nothing when it is off.
C14_OutputModeOnlyRenders ==
    /\ pc = "dispatch" =>
         \A raw \in RawResults :
           LET on == ForeignCallExecute(foreign_call, TRUE, raw)
               off == ForeignCallExecute(foreign_call, FALSE, raw)
           IN  on.ok = off.ok /\ on.values = off.values /\ on.error = off.error
    /\ \A i \in 1..Last :
         IsDispatch(trace[i]) =>
           trace[i].outcome.rendered =
             (IF show_output /\ IsPrintDispatch(trace[i])
              THEN <<trace[i].request.inputs>> ELSE <<>>)
    /\ output = (IF show_output THEN PrintedUpTo(Last) ELSE <<>>)

\* A solved circuit with one debug print; run once with output, once without.
C14_Witness ==
    /\ ret.tag = "Ok"
    /\ Count(IsPrintDispatch) = 1
    /\ Count(IsDispatch) = 1
    /\ show_output
    /\ Len(output) = 1

C14_WitnessQuiet ==
    /\ ret.tag = "Ok"
    /\ Count(IsPrintDispatch) = 1
    /\ ~show_output
    /\ output = <<>>

\* C15: a request whose identifier the dispatcher does not know is always
\* dispatched, always answered with UnknownForeignCall naming it and with no
\* values, and that dispatch is the last call: nothing is resolved for it.
C15_UnknownCallRejected ==
    \A i \in 1..Last :
      LET e == trace[i] IN
      /\ (IsRequest(e) /\ e.status.request.id \notin Vocabulary) =>
            IF i = Last THEN pc = "dispatch"
            ELSE IsDispatch(trace[i + 1]) /\ trace[i + 1].request = e.status.request
      /\ (IsDispatch(e) /\ e.request.id \notin Vocabulary) =>
            /\ ~e.outcome.ok
            /\ e.outcome.values = <<>>
            /\ e.outcome.error = [kind |-> "UnknownForeignCall", id |-> e.request.id]
            /\ i = Last
            /\ pc = "done"
            /\ ret.tag = "Err"
            /\ ret.err.dispatch.kind = "UnknownForeignCall"

\* An unknown call reached after a known one was resolved.
C15_Witness ==
    /\ pc = "done"
    /\ IsDispatch(trace[Last])
    /\ trace[Last].request.id \notin Vocabulary
    /\ Count(IsResolve) = 1

\* C16: a dispatch step leaves the solver (witness store, position, status)
\* as it was; the store and the status change only in a solve or a resolve
\* step, never in a step of the driver's own (dispatch, finalize, return); the
\* circuit, the initial witness and the output mode never change.
C16_Step ==
    /\ pc = "dispatch" => UNCHANGED <<acvm_witness, acvm_ip, acvm_status>>
    /\ acvm_witness' # acvm_witness => pc \in {"solve", "resolve"}
    /\ (acvm_status' # acvm_status \/ acvm_ip' # acvm_ip) => pc \in {"solve", "resolve"}
    /\ UNCHANGED inputs

C16_DispatchLeavesSolverAlone == [][C16_Step]_vars

\* A dispatch has just produced a value for the solver.
C16_Witness ==
    /\ pc = "resolve"
    /\ foreign_call_result # <<>>
    /\ IsDispatch(trace[Last])
    /\ acvm_status.tag = "RequiresForeignCall"

\* Scheduling: the function runs on one thread and every call it makes
\* returns, so a step that is possible is eventually taken.
FairSpec == Spec /\ WF_vars(Next)

ForeignCallCount(ops) == ForeignCallsUpTo(ops, Len(ops))

\* C17: the execution terminates, and while the solver keeps its contract it
\* makes at most N + 1 solve() calls and at most N dispatches, N the number
\* of foreign-call opcodes of the circuit.
C17_Terminates ==
    /\ <>(pc = "done")
    /\ [](SolverConformed =>
            /\ Count(IsSolve) <= ForeignCallCount(circuit) + 1
            /\ Count(IsDispatch) <= ForeignCallCount(circuit)
            /\ Count(IsSolve) <= Count(IsDispatch) + 1)

\* A run that used the whole allowance: N = MaxOps calls, N + 1 solves.
C17_Witness ==
    /\ pc = "done"
    /\ SolverConformed
    /\ ForeignCallCount(circuit) = Len(circuit)
    /\ Len(circuit) >= 2
    /\ Count(IsSolve) = ForeignCallCount(circuit) + 1
    /\ Count(IsDispatch) = ForeignCallCount(circuit)

\* How a finished run ended, by its last solve() or dispatch.
EndedOn(tag) ==
    \E i \in 1..Last :
      /\ ReturnsTag(trace[i], tag)
      /\ \A j \in (i + 1)..Last : ~IsSolve(trace[j]) /\ ~IsDispatch(trace[j])

EndedOnDispatchError == Last > 0 /\ DispatchFailed(trace[Last])

\* C18: on every finished run, resolves equal successful dispatches; solves
\* equal successful dispatches + 1 when the run ended on Solved or Failure
\* and equal all dispatches when it ended on a dispatcher error; finalize is
\* called once on a run that ended on Solved and never on any other.
C18_CallCounts ==
    pc = "done" =>
      /\ Count(IsResolve) = Count(DispatchSucceeded)
      /\ (EndedOn("Solved") \/ EndedOn("Failure")) =>
            Count(IsSolve) = Count(DispatchSucceeded) + 1
      /\ EndedOnDispatchError =>
            /\ Count(IsSolve) = Count(IsDispatch)
            /\ Count(IsDispatch) = Count(DispatchSucceeded) + 1
      /\ Count(IsFinalize) = (IF EndedOn("Solved") THEN 1 ELSE 0)
      /\ EndedOn("Solved") <=> ret.tag = "Ok"
      /\ ret.tag # "Ok" => Count(IsFinalize) = 0

\* A success after two resolved calls: 3 solves, 2 dispatches, 2 resolves,
\* 1 finalize.
C18_Witness ==
    /\ pc = "done"
    /\ ret.tag = "Ok"
    /\ Count(IsSolve) = 3
    /\ Count(DispatchSucceeded) = 2
    /\ Count(IsFinalize) = 1

C18_WitnessDispatchError ==
    /\ pc = "done"
    /\ EndedOnDispatchError
    /\ Count(IsSolve) = 2

\* ------------------------------------------------ Display of the AST nodes
\* generics.join(", ")
RECURSIVE Join(_, _)
Join(strs, sep) ==
    IF Len(strs) = 0 THEN ""
    ELSE IF Len(strs) = 1 THEN strs[1]
    ELSE strs[1] \o sep \o Join(Tail(strs), sep)

\* let generics = if generics.is_empty() { "".into() } else { generics.join(", ") };
GenericsText(generics) == IF Len(generics) = 0 THEN "" ELSE Join(generics, ", ")

\* impl Display for TraitItem, as the lines of the text
TraitItemFmt(it) ==
    IF it.item = "Type" THEN <<"type " \o it.name \o ";">>
    ELSE <<"let " \o it.name \o ": " \o it.typ \o ";">>

\* for line in item.lines() { writeln!(f, "    {line}")?; }
RECURSIVE IndentLines(_)
IndentLines(lines) ==
    IF Len(lines) = 0 THEN ""
    ELSE "    " \o Head(lines) \o "\n" \o IndentLines(Tail(lines))

\* for item in self.items.iter() { ... }, each item given by its lines
RECURSIVE BodyText(_)
BodyText(texts) ==
    IF Len(texts) = 0 THEN ""
    ELSE IndentLines(Head(texts)) \o BodyText(Tail(texts))

\* impl Display for NoirTrait
NoirTraitFmt(t) ==
    "trait " \o t.name \o GenericsText(t.generics) \o " {" \o "\n"
      \o BodyText([i \in 1..Len(t.items) |-> TraitItemFmt(t.items[i])])
      \o "}"

\* impl Display for TypeImpl
TypeImplFmt(t) ==
    "impl" \o GenericsText(t.generics) \o " " \o t.name \o " {" \o "\n"
      \o BodyText(t.methods)
      \o "}"

\* A node is displayed once; the driver takes no part.
InitDisplay ==
    /\ circuit = <<>>
    /\ initial_witness = EmptyWitness
    /\ show_output = FALSE
    /\ acvm_witness = EmptyWitness
    /\ acvm_ip = 0
    /\ acvm_status = StatusInProgress
    /\ pc = "fmt"
    /\ foreign_call = NoRequest
    /\ foreign_call_result = <<>>
    /\ ret = NotReturned
    /\ output = <<>>
    /\ trace = <<>>
    /\ node \in NoirTraits \cup TypeImpls
    /\ fmt_out = ""

driver == <<circuit, initial_witness, show_output, acvm_witness, acvm_ip, acvm_status,
            foreign_call, foreign_call_result, ret, output, trace>>

FmtNoirTrait ==
    /\ pc = "fmt"
    /\ node.node = "NoirTrait"
    /\ fmt_out' = NoirTraitFmt(node)
    /\ pc' = "done"
    /\ UNCHANGED <<driver, node>>

FmtTypeImpl ==
    /\ pc = "fmt"
    /\ node.node = "TypeImpl"
    /\ fmt_out' = TypeImplFmt(node)
    /\ pc' = "done"
    /\ UNCHANGED <<driver, node>>

NextDisplay == FmtNoirTrait \/ FmtTypeImpl

SpecDisplay == InitDisplay /\ [][NextDisplay]_vars

\* The header forms documented on the AST nodes:
\*   trait name<generics> { ... }      impl object_type<generics> { ... }
DocumentedGenerics(generics) ==
    IF Len(generics) = 0 THEN "" ELSE "<" \o Join(generics, ", ") \o ">"

DocumentedText(t) ==
    IF t.node = "NoirTrait"
    THEN "trait " \o t.name \o DocumentedGenerics(t.generics) \o " {" \o "\n"
           \o BodyText([i \in 1..Len(t.items) |-> TraitItemFmt(t.items[i])]) \o "}"
    ELSE "impl " \o t.name \o DocumentedGenerics(t.generics) \o " {" \o "\n"
           \o BodyText(t.methods) \o "}"

\* C19: the text displayed for a trait definition or a type impl is the
\* documented header, generics in angle brackets after the name and none
\* when the list is empty, then each item line indented by four spaces, then
\* the closing brace.
C19_DisplayFollowsDocumentedForm ==
    (pc = "done" /\ node.node # "none") => fmt_out = DocumentedText(node)

====
